---- MODULE Spec2Model ----
(***************************************************************************)
(* Model of the shell library lab.c: tokenizer, built-in dispatcher,       *)
(* process launcher (fork / signal reset / execvp / waitpid) and session   *)
(* initialisation (foreground acquisition, signal dispositions, process    *)
(* group, prompt).  Strings that the code inspects character by character  *)
(* are sequences of one-character strings.                                 *)
(***************************************************************************)
EXTENDS Integers, Sequences, FiniteSets, TLC

(* ------------------------------ bounds -------------------------------- *)
\* number of process ids the kernel can hand out to children of the shell
MaxChildren == 2
\* model-sized stand-in for sysconf(_SC_ARG_MAX), lab.c:21
ARG_MAX == 4

(* --------------------------- program constants ------------------------ *)
STDIN_FILENO == 0
EXIT_FAILURE == 1

\* process ids and process groups of the environment
ShellPid == 10
ParentPgid == 5
ChildPids == (ShellPid + 1)..(ShellPid + MaxChildren)

\* the five job-control signals, in the order lab.c sets them
SigOrder == <<"SIGINT", "SIGQUIT", "SIGTSTP", "SIGTTIN", "SIGTTOU">>
Signals == {SigOrder[i] : i \in 1..Len(SigOrder)}
StopSignals == {"SIGTSTP", "SIGTTIN", "SIGTTOU"}

\* a null pointer to a string
NULL == <<"NULL">>

\* a null pointer in place of an argument array
NullCmd == <<NULL>>

(* ------------------------------ strings ------------------------------- *)
EXIT == <<"e", "x", "i", "t">>
CD == <<"c", "d">>
HISTORY == <<"h", "i", "s", "t", "o", "r", "y">>
LS == <<"l", "s">>
SP == <<" ">>
TAB == <<"\t">>

\* directories of the file system, a path that does not exist, and one
\* that exists but cannot be entered
Root == <<"/">>
TmpDir == <<"/", "t">>
HomeDir == <<"/", "h">>
PwDir == <<"/", "p">>
NoSuchDir == <<"/", "n">>
LockedDir == <<"/", "r">>
DotDot == <<".", ".">>
Dirs == {Root, TmpDir, HomeDir, PwDir}
NoDir == <<"ENOENT">>

\* programs execvp can find
NoSuchProgram == <<"/", "x">>
Programs == {LS}

\* isspace() of the C locale ("VT" stands for the vertical tab)
IsSpace(c) == c \in {" ", "\t", "\n", "VT", "\f", "\r"}

(* ------------------------------ trim_white ---------------------------- *)
RECURSIVE SkipLeadingSpace(_)
SkipLeadingSpace(line) ==
    IF line # <<>> /\ IsSpace(Head(line)) THEN SkipLeadingSpace(Tail(line))
    ELSE line

RECURSIVE StripTrailingSpace(_)
StripTrailingSpace(line) ==
    IF Len(line) > 1 /\ IsSpace(line[Len(line)])
    THEN StripTrailingSpace(SubSeq(line, 1, Len(line) - 1))
    ELSE line

trim_white(line) ==
    LET l == SkipLeadingSpace(line)
    IN  IF l = <<>> THEN l ELSE StripTrailingSpace(l)

(* ------------------------------ cmd_parse ----------------------------- *)
\* a tokenizer that splits on tabs
IsDelim_Tab(c) == c = "\t"

\* the delimiter set " " given to strtok, lab.c:68 and 71
IsDelim(c) == c = " "

\* strtok: skip delimiters, then take the run of non-delimiters
RECURSIVE SkipDelims(_)
SkipDelims(s) ==
    IF s # <<>> /\ IsDelim(Head(s)) THEN SkipDelims(Tail(s)) ELSE s

RECURSIVE TokenLen(_)
TokenLen(s) ==
    IF s = <<>> \/ IsDelim(Head(s)) THEN 0 ELSE 1 + TokenLen(Tail(s))

\* the token strtok returns on s (<<>> stands for a null token) and the
\* text it leaves for the next call
strtok(s) ==
    LET r == SkipDelims(s)
        n == TokenLen(r)
    IN  [token |-> SubSeq(r, 1, n),
         rest  |-> SubSeq(r, n + 2, Len(r))]

RECURSIVE ParseLoop(_, _)
ParseLoop(rest, cmd) ==
    LET t == strtok(rest)
    IN  IF t.token # <<>> /\ Len(cmd) < ARG_MAX - 1
        THEN ParseLoop(t.rest, Append(cmd, t.token))
        ELSE cmd

cmd_parse(line) == ParseLoop(line, <<>>)

(* ------------------------------- chdir -------------------------------- *)
\* the directory a path names, seen from cwd; NoDir when chdir fails
Resolve(cwd0, path) ==
    IF path \in Dirs THEN path
    ELSE IF path = DotDot THEN Root
    ELSE NoDir

(* ------------------------------ state --------------------------------- *)
VARIABLES
    tty,          \* isatty(STDIN_FILENO) of the shell's standard input
    env,          \* environment: HOME (a path or NULL), MY_PROMPT (or "NULL")
    pw,           \* pw_dir of the user's passwd entry, NULL when there is none
    pc,           \* position of the shell process
    sh,           \* struct shell
    disp,         \* signal dispositions of the shell process
    shellPgrp,    \* process group of the shell process
    tfg,          \* foreground process group of the terminal
    stopped,      \* the shell process is stopped by a stop signal
    exitCode,     \* exit status of the shell, -1 while it has not exited
    cwd,          \* working directory of the shell process
    line,         \* the line read by the loop
    cmd,          \* the parsed command
    k,            \* index in SigOrder of the next signal() call of sh_init
    pid,          \* local pid of execute_command
    lastErr,      \* last perror of the shell since the line was read
    out,          \* what the shell printed since the line was read
    promptFrees,  \* number of free(sh->prompt) calls
    lastKill,     \* the signal the shell sent last in the acquisition loop
    children,     \* child processes of the shell, by pid
    alloc,        \* the allocation of cmd_parse that fails, if any
    cmdArr        \* the argument array cmd_parse filled in

vars == <<tty, env, pw, pc, sh, disp, shellPgrp, tfg, stopped, exitCode, cwd,
          line, cmd, k, pid, lastErr, out, promptFrees, lastKill, children,
          alloc, cmdArr>>

envVars == <<tty, env, pw>>

parseVars == <<alloc, cmdArr>>

\* no allocation fails
NoFault == [site |-> "none", n |-> 0]

AllDefault == [s \in Signals |-> "dfl"]

NoChild == [pc |-> "none", k |-> 0, disp |-> AllDefault, pgrp |-> 0,
            argv |-> <<>>, stopped |-> FALSE, status |-> 0,
            signaled |-> FALSE, reported |-> FALSE]

NoKill == [pgrp |-> 0, sig |-> "none"]

\* lines the line-input library can hand to the loop
Lines ==
    { <<>>, SP \o SP, TAB,
      EXIT, EXIT \o SP \o <<"1">>,
      CD, CD \o SP \o TmpDir,
      SP \o CD \o SP \o SP \o HomeDir \o SP \o NoSuchDir \o SP,
      CD \o SP \o NoSuchDir, CD \o SP \o LockedDir, CD \o SP \o DotDot,
      CD \o TAB \o TmpDir,
      HISTORY, HISTORY \o SP \o <<"1">>,
      LS, LS \o SP \o <<"-">>, NoSuchProgram }

Init ==
    /\ tty \in BOOLEAN
    /\ env \in [HOME : {NULL, HomeDir, NoSuchDir}, MY_PROMPT : {"NULL", "my> "}]
    /\ pw \in {NULL, PwDir}
    /\ pc = "start"
    /\ sh = [shell_terminal |-> -1, shell_is_interactive |-> FALSE,
             shell_pgid |-> 0, shell_tmodes |-> "unset", prompt |-> "NULL"]
    /\ disp \in {AllDefault, [s \in Signals |-> "ign"]}
    /\ shellPgrp \in {ShellPid, ParentPgid}
    /\ tfg \in {ShellPid, ParentPgid}
    /\ tfg = ShellPid => shellPgrp = ShellPid
    /\ stopped = FALSE
    /\ exitCode = -1
    /\ cwd = Root
    /\ line = <<>>
    /\ cmd = <<>>
    /\ k = 0
    /\ pid = 0
    /\ lastErr = "none"
    /\ out = "none"
    /\ promptFrees = 0
    /\ lastKill = NoKill
    /\ children = [p \in ChildPids |-> NoChild]
    /\ alloc = NoFault
    /\ cmdArr = <<>>

Alive == pc \notin {"exited", "killed"}
Running == Alive /\ ~stopped

(* --------------------------- signal delivery -------------------------- *)
\* what a signal does to a process with disposition d
Effect(sig, d) ==
    IF d # "dfl" THEN "none"
    ELSE IF sig \in StopSignals THEN "stop" ELSE "kill"

\* a child after sig has been delivered to it
DeliverChild(c, sig) ==
    IF c.pc \in {"none", "zombie"} THEN c
    ELSE IF Effect(sig, c.disp[sig]) = "kill"
         THEN [c EXCEPT !.pc = "zombie", !.signaled = TRUE, !.stopped = FALSE]
    ELSE IF Effect(sig, c.disp[sig]) = "stop" THEN [c EXCEPT !.stopped = TRUE]
    ELSE c

(* ------------------------------ get_prompt ---------------------------- *)
get_prompt(value) == IF value = "NULL" THEN "shell> " ELSE value

(* ------------------------------ sh_destroy ---------------------------- *)
\* a teardown that leaks the prompt
sh_destroy_Leak(frees) == frees

\* the number of frees of the prompt after sh_destroy
sh_destroy(frees) == frees + 1

(* ------------------------------ change_dir ---------------------------- *)
\* a cd that falls back to the root directory when its target fails
change_dir_Fallback(args, cwd0, home0, pwdir) ==
    LET target == IF Len(args) >= 2 THEN args[2]
                  ELSE IF home0 # NULL THEN home0 ELSE pwdir
    IN  IF target = NULL THEN [ret |-> 0, cwd |-> cwd0, err |-> "none"]
        ELSE IF Resolve(cwd0, target) = NoDir
             THEN [ret |-> -1, cwd |-> Root, err |-> "cd"]
             ELSE [ret |-> 0, cwd |-> Resolve(cwd0, target), err |-> "none"]

\* a cd that treats a missing home directory as an error
change_dir_NoHomeFails(args, cwd0, home0, pwdir) ==
    LET target == IF Len(args) >= 2 THEN args[2]
                  ELSE IF home0 # NULL THEN home0 ELSE pwdir
    IN  IF target = NULL \/ Resolve(cwd0, target) = NoDir
        THEN [ret |-> -1, cwd |-> cwd0, err |-> "cd"]
        ELSE [ret |-> 0, cwd |-> Resolve(cwd0, target), err |-> "none"]

\* a cd that asks the user database before HOME
change_dir_PwFirst(args, cwd0, home0, pwdir) ==
    LET target == IF Len(args) >= 2 THEN args[2]
                  ELSE IF pwdir # NULL THEN pwdir ELSE home0
    IN  IF target = NULL THEN [ret |-> 0, cwd |-> cwd0, err |-> "none"]
        ELSE IF Resolve(cwd0, target) = NoDir
             THEN [ret |-> -1, cwd |-> cwd0, err |-> "cd"]
             ELSE [ret |-> 0, cwd |-> Resolve(cwd0, target), err |-> "none"]

\* args is the argument array (args[2] is C's args[1]); the result is the
\* return value, the working directory afterwards and the message printed
change_dir(args, cwd0, home0, pwdir) ==
    IF Len(args) < 2
    THEN LET home == IF home0 # NULL THEN home0 ELSE pwdir
         IN  IF home # NULL /\ Resolve(cwd0, home) = NoDir
             THEN [ret |-> -1, cwd |-> cwd0, err |-> "cd"]
             ELSE [ret |-> 0,
                   cwd |-> IF home # NULL THEN Resolve(cwd0, home) ELSE cwd0,
                   err |-> "none"]
    ELSE IF Resolve(cwd0, args[2]) = NoDir
         THEN [ret |-> -1, cwd |-> cwd0, err |-> "cd"]
         ELSE [ret |-> 0, cwd |-> Resolve(cwd0, args[2]), err |-> "none"]

(* ------------------------------ do_builtin ---------------------------- *)
\* the outcome of do_builtin: its return value, whether it left through
\* exit() and with which status, the working directory afterwards, the
\* message and the output
do_builtin(argv, cwd0, home0, pwdir) ==
    LET idle == [ret |-> FALSE, exits |-> FALSE, code |-> -1, cwd |-> cwd0,
                 err |-> "none", out |-> "none"]
    IN  IF argv = <<>> THEN idle
        ELSE IF argv[1] = EXIT THEN [idle EXCEPT !.exits = TRUE, !.code = 0]
        ELSE IF argv[1] = CD
             THEN LET r == change_dir(argv, cwd0, home0, pwdir)
                  IN  [idle EXCEPT !.ret = (r.ret = 0), !.cwd = r.cwd,
                                   !.err = r.err]
        ELSE IF argv[1] = HISTORY
             THEN [idle EXCEPT !.ret = TRUE, !.out = "history"]
        ELSE idle

(* ------------------------------- sh_init ------------------------------ *)
\* a shell that leaves terminal-stop alone
ShellIgnore_SkipTstp(d, i) ==
    IF SigOrder[i] = "SIGTSTP" THEN d ELSE [d EXCEPT ![SigOrder[i]] = "ign"]

\* a shell that leaves interrupt alone
ShellIgnore_SkipInt(d, i) ==
    IF SigOrder[i] = "SIGINT" THEN d ELSE [d EXCEPT ![SigOrder[i]] = "ign"]

\* the shell's dispositions after the k-th signal(.., SIG_IGN) of sh_init
ShellIgnore(d, i) == [d EXCEPT ![SigOrder[i]] = "ign"]

\* an acquisition loop that is never entered
AcquireLoopCond_Never(fg, pgrp) == FALSE

\* the condition of the foreground-acquisition loop on tcgetpgrp() and
\* getpgrp(), lab.c:169
AcquireLoopCond(fg, pgrp) == fg # pgrp

\* a shell that sets up the terminal whatever its input is
TerminalSetup_Always(interactive) == TRUE

\* the test of sh->shell_is_interactive that guards the terminal setup,
\* lab.c:168
TerminalSetup(interactive) == interactive

\* lab.c:165-168
ShInitStart ==
    /\ pc = "start" /\ Running
    /\ sh' = [sh EXCEPT !.shell_terminal = STDIN_FILENO,
                        !.shell_is_interactive = tty]
    /\ pc' = IF TerminalSetup(tty) THEN "init_loop" ELSE "init_prompt"
    /\ UNCHANGED <<envVars, parseVars,
                   disp, shellPgrp, tfg, stopped, exitCode, cwd, line,
                   cmd, k, pid, lastErr, out, promptFrees, lastKill, children>>

\* the loop condition, lab.c:169
ShInitLoopTest ==
    /\ pc = "init_loop" /\ Running
    /\ sh' = [sh EXCEPT !.shell_pgid = shellPgrp]
    /\ IF AcquireLoopCond(tfg, shellPgrp)
       THEN pc' = "init_kill" /\ k' = k
       ELSE pc' = "init_sig" /\ k' = 1
    /\ lastKill' = NoKill
    /\ UNCHANGED <<envVars, parseVars,
                   disp, shellPgrp, tfg, stopped, exitCode, cwd, line,
                   cmd, pid, lastErr, out, promptFrees, children>>

\* the loop body, lab.c:170
ShInitKill ==
    /\ pc = "init_kill" /\ Running
    /\ lastKill' = [pgrp |-> sh.shell_pgid, sig |-> "SIGTTIN"]
    /\ stopped' = (shellPgrp = sh.shell_pgid
                   /\ Effect("SIGTTIN", disp["SIGTTIN"]) = "stop")
    /\ pc' = "init_loop"
    /\ UNCHANGED <<envVars, parseVars,
                   sh, disp, shellPgrp, tfg, exitCode, cwd, line, cmd,
                   k, pid, lastErr, out, promptFrees, children>>

\* one of the five signal(.., SIG_IGN), lab.c:172-176
ShInitIgnore ==
    /\ pc = "init_sig" /\ Running
    /\ disp' = ShellIgnore(disp, k)
    /\ IF k < Len(SigOrder)
       THEN k' = k + 1 /\ pc' = pc
       ELSE k' = 0 /\ pc' = "init_getpid"
    /\ UNCHANGED <<envVars, parseVars,
                   sh, shellPgrp, tfg, stopped, exitCode, cwd, line,
                   cmd, pid, lastErr, out, promptFrees, lastKill, children>>

\* a shell that keeps the group it was started in
OwnPgid_Getpgrp(pidv, pgrp) == pgrp

\* the group the shell records for itself from getpid(), lab.c:178
OwnPgid(pidv, pgrp) == pidv

\* lab.c:178
ShInitGetpid ==
    /\ pc = "init_getpid" /\ Running
    /\ sh' = [sh EXCEPT !.shell_pgid = OwnPgid(ShellPid, shellPgrp)]
    /\ pc' = "init_setpgid"
    /\ UNCHANGED <<envVars, parseVars,
                   disp, shellPgrp, tfg, stopped, exitCode, cwd, line,
                   cmd, k, pid, lastErr, out, promptFrees, lastKill, children>>

\* lab.c:179
ShInitSetpgid ==
    /\ pc = "init_setpgid" /\ Running
    /\ shellPgrp' = sh.shell_pgid
    /\ pc' = "init_tcsetpgrp"
    /\ UNCHANGED <<envVars, parseVars,
                   sh, disp, tfg, stopped, exitCode, cwd, line, cmd, k,
                   pid, lastErr, out, promptFrees, lastKill, children>>

\* lab.c:180
ShInitTcsetpgrp ==
    /\ pc = "init_tcsetpgrp" /\ Running
    /\ tfg' = sh.shell_pgid
    /\ pc' = "init_tcgetattr"
    /\ UNCHANGED <<envVars, parseVars,
                   sh, disp, shellPgrp, stopped, exitCode, cwd, line,
                   cmd, k, pid, lastErr, out, promptFrees, lastKill, children>>

\* lab.c:182
ShInitTcgetattr ==
    /\ pc = "init_tcgetattr" /\ Running
    /\ sh' = [sh EXCEPT !.shell_tmodes = "saved"]
    /\ pc' = "init_prompt"
    /\ UNCHANGED <<envVars, parseVars,
                   disp, shellPgrp, tfg, stopped, exitCode, cwd, line,
                   cmd, k, pid, lastErr, out, promptFrees, lastKill, children>>

\* lab.c:185
ShInitPrompt ==
    /\ pc = "init_prompt" /\ Running
    /\ sh' = [sh EXCEPT !.prompt = get_prompt(env.MY_PROMPT)]
    /\ pc' = "prompt"
    /\ UNCHANGED <<envVars, parseVars,
                   disp, shellPgrp, tfg, stopped, exitCode, cwd, line,
                   cmd, k, pid, lastErr, out, promptFrees, lastKill, children>>

(* --------------------------- the read loop ---------------------------- *)
\* read one line with the prompt
ReadLine ==
    /\ pc = "prompt" /\ Running
    /\ \E l \in Lines : line' = l
    /\ pc' = "line"
    /\ lastErr' = "none" /\ out' = "none"
    /\ UNCHANGED <<envVars, parseVars,
                   sh, disp, shellPgrp, tfg, stopped, exitCode, cwd,
                   cmd, k, pid, promptFrees, lastKill, children>>

\* end of input: the session is destroyed and the process ends with 0
ReadEOF ==
    /\ pc = "prompt" /\ Running
    /\ promptFrees' = sh_destroy(promptFrees)
    /\ exitCode' = 0
    /\ pc' = "exited"
    /\ UNCHANGED <<envVars, parseVars,
                   sh, disp, shellPgrp, tfg, stopped, cwd, line, cmd,
                   k, pid, lastErr, out, lastKill, children>>

\* trim the line; an empty trimmed line is skipped, any other is parsed
ParseLine ==
    /\ pc = "line" /\ Running
    /\ LET t == trim_white(line)
       IN  IF t = <<>>
           THEN line' = <<>> /\ cmd' = cmd /\ pc' = "prompt"
           ELSE line' = t /\ cmd' = cmd_parse(t) /\ pc' = "dispatch"
    /\ UNCHANGED <<envVars, parseVars,
                   sh, disp, shellPgrp, tfg, stopped, exitCode, cwd, k,
                   pid, lastErr, out, promptFrees, lastKill, children>>

\* do_builtin on the parsed command, lab.c:139-157; a command that is not
\* handled goes to the launcher
DoBuiltin ==
    /\ pc = "dispatch" /\ Running
    /\ LET r == do_builtin(cmd, cwd, env.HOME, pw)
       IN  IF r.exits
           THEN /\ promptFrees' = sh_destroy(promptFrees)
                /\ exitCode' = r.code
                /\ pc' = "exited"
                /\ UNCHANGED <<cwd, lastErr, out>>
           ELSE /\ cwd' = r.cwd
                /\ lastErr' = r.err
                /\ out' = r.out
                /\ pc' = IF r.ret THEN "free" ELSE "exec"
                /\ UNCHANGED <<promptFrees, exitCode>>
    /\ UNCHANGED <<envVars, parseVars,
                   sh, disp, shellPgrp, tfg, stopped, line, cmd, k,
                   pid, lastKill, children>>

\* cmd_free and the release of the line, then the next prompt
CmdFree ==
    /\ pc = "free" /\ Running
    /\ cmd' = <<>> /\ line' = <<>> /\ pid' = 0
    /\ pc' = "prompt"
    /\ UNCHANGED <<envVars, parseVars,
                   sh, disp, shellPgrp, tfg, stopped, exitCode, cwd, k,
                   lastErr, out, promptFrees, lastKill, children>>

(* --------------------------- execute_command -------------------------- *)
\* waitpid that also reports stopped children (as with WUNTRACED)
WaitReturns_Untraced(c) == c.pc = "zombie" \/ (c.pc # "none" /\ c.stopped)

\* waitpid that does not block (as with WNOHANG)
WaitReturns_NoHang(c) == c.pc # "none"

\* the child states in which waitpid(pid, &status, 0) returns
WaitReturns(c) == c.pc = "zombie"

\* a child that forgets the last of the five resets
ChildDefault_SkipLast(d, i) ==
    IF i = Len(SigOrder) THEN d ELSE [d EXCEPT ![SigOrder[i]] = "dfl"]

\* the child's dispositions after its i-th signal(.., SIG_DFL)
ChildDefault(d, i) == [d EXCEPT ![SigOrder[i]] = "dfl"]

\* a child that reports the failure and returns from execute_command
ChildAfterExecFail_Returns(c) ==
    [c EXCEPT !.reported = TRUE, !.pc = "returned"]

\* the child after a failed execvp: perror and exit(EXIT_FAILURE)
ChildAfterExecFail(c) ==
    [c EXCEPT !.reported = TRUE, !.pc = "zombie", !.status = EXIT_FAILURE]

\* a launcher that gives up the session when fork fails
ForkFailure_Exits == [err |-> "fork", pc |-> "exited", code |-> EXIT_FAILURE]

\* what execute_command does when fork returns -1, lab.c:219-221: the
\* message, where the shell goes on and its exit status (-1: none)
ForkFailure == [err |-> "fork", pc |-> "free", code |-> -1]

\* a launcher that only checks the array pointer
NoCommand_NullOnly(c) == c = NullCmd

\* the test !cmd || !cmd[0] of execute_command, lab.c:203
NoCommand(c) == c = NullCmd \/ c = <<>>

\* lab.c:203-205 and 219-221: the null or empty command returns, otherwise
\* fork; the new child is a copy of the shell
ExecuteCommand ==
    /\ pc = "exec" /\ Running
    /\ IF NoCommand(cmd)
       THEN pc' = "free" /\ UNCHANGED <<pid, lastErr, children, exitCode>>
       ELSE \/ /\ pid' = -1
               /\ lastErr' = ForkFailure.err
               /\ pc' = ForkFailure.pc
               /\ exitCode' = ForkFailure.code
               /\ UNCHANGED children
            \/ \E p \in ChildPids :
                 /\ children[p].pc = "none"
                 /\ children' = [children EXCEPT ![p] =
                        [NoChild EXCEPT !.pc = "sig", !.k = 1, !.disp = disp,
                                        !.pgrp = shellPgrp, !.argv = cmd]]
                 /\ pid' = p
                 /\ pc' = "wait"
                 /\ UNCHANGED <<lastErr, exitCode>>
    /\ UNCHANGED <<envVars, parseVars, sh, disp, shellPgrp, tfg, stopped, cwd,
                   line, cmd, k, out, promptFrees, lastKill>>

\* the parent's waitpid, lab.c:216-218: a terminated child is reaped
WaitChild ==
    /\ pc = "wait" /\ Running
    /\ WaitReturns(children[pid])
    /\ children' = IF children[pid].pc = "zombie"
                   THEN [children EXCEPT ![pid] = NoChild]
                   ELSE children
    /\ pc' = "free"
    /\ UNCHANGED <<envVars, parseVars,
                   sh, disp, shellPgrp, tfg, stopped, exitCode, cwd,
                   line, cmd, k, pid, lastErr, out, promptFrees, lastKill>>

\* one of the child's five signal(.., SIG_DFL), lab.c:207-211
ChildResetSignal(p) ==
    LET c == children[p]
    IN  /\ c.pc = "sig" /\ ~c.stopped
        /\ children' = [children EXCEPT ![p] =
               [c EXCEPT !.disp = ChildDefault(c.disp, c.k),
                         !.k = c.k + 1,
                         !.pc = IF c.k < Len(SigOrder) THEN "sig" ELSE "exec"]]
        /\ UNCHANGED <<envVars, parseVars,
                       pc, sh, disp, shellPgrp, tfg, stopped, exitCode,
                       cwd, line, cmd, k, pid, lastErr, out, promptFrees,
                       lastKill>>

\* execvp, lab.c:213: it can succeed only for a program that exists; the
\* new image keeps ignored and default dispositions
ChildExec(p) ==
    LET c == children[p]
    IN  /\ c.pc = "exec" /\ ~c.stopped
        /\ \/ /\ c.argv # <<>> /\ c.argv[1] \in Programs
              /\ children' = [children EXCEPT ![p] = [c EXCEPT !.pc = "program"]]
           \/ children' = [children EXCEPT ![p] = [c EXCEPT !.pc = "execfail"]]
        /\ UNCHANGED <<envVars, parseVars,
                       pc, sh, disp, shellPgrp, tfg, stopped, exitCode,
                       cwd, line, cmd, k, pid, lastErr, out, promptFrees,
                       lastKill>>

\* lab.c:214-215
ChildExecFail(p) ==
    LET c == children[p]
    IN  /\ c.pc = "execfail" /\ ~c.stopped
        /\ children' = [children EXCEPT ![p] = ChildAfterExecFail(c)]
        /\ UNCHANGED <<envVars, parseVars,
                       pc, sh, disp, shellPgrp, tfg, stopped, exitCode,
                       cwd, line, cmd, k, pid, lastErr, out, promptFrees,
                       lastKill>>

(* ---------------------- the program and the terminal ------------------ *)
\* signals the launched program may install a handler for
CaughtSignals == {"SIGINT"}

\* the launched program ends by itself
ProgramExit(p) ==
    LET c == children[p]
    IN  /\ c.pc = "program" /\ ~c.stopped
        /\ \E st \in {0, 1} :
             children' = [children EXCEPT ![p] =
                              [c EXCEPT !.pc = "zombie", !.status = st]]
        /\ UNCHANGED <<envVars, parseVars,
                       pc, sh, disp, shellPgrp, tfg, stopped, exitCode,
                       cwd, line, cmd, k, pid, lastErr, out, promptFrees,
                       lastKill>>

\* the launched program installs a signal handler
ProgramCatch(p) ==
    LET c == children[p]
    IN  /\ c.pc = "program" /\ ~c.stopped
        /\ \E s \in CaughtSignals :
             /\ c.disp[s] # "caught"
             /\ children' = [children EXCEPT ![p] =
                                 [c EXCEPT !.disp = [c.disp EXCEPT ![s] = "caught"]]]
        /\ UNCHANGED <<envVars, parseVars,
                       pc, sh, disp, shellPgrp, tfg, stopped, exitCode,
                       cwd, line, cmd, k, pid, lastErr, out, promptFrees,
                       lastKill>>

\* a key of the terminal sends sig to every process of the foreground group
TerminalSignal(sig) ==
    /\ \/ Alive /\ shellPgrp = tfg
       \/ \E p \in ChildPids :
            children[p].pc \notin {"none", "zombie"} /\ children[p].pgrp = tfg
    /\ IF Alive /\ shellPgrp = tfg
       THEN /\ pc' = IF Effect(sig, disp[sig]) = "kill" THEN "killed" ELSE pc
            /\ stopped' = IF Effect(sig, disp[sig]) = "stop" THEN TRUE
                          ELSE IF Effect(sig, disp[sig]) = "kill" THEN FALSE
                          ELSE stopped
       ELSE UNCHANGED <<pc, stopped>>
    /\ children' = [p \in ChildPids |->
                       IF children[p].pgrp = tfg
                       THEN DeliverChild(children[p], sig)
                       ELSE children[p]]
    /\ UNCHANGED <<envVars, parseVars,
                   sh, disp, shellPgrp, tfg, exitCode, cwd, line, cmd,
                   k, pid, lastErr, out, promptFrees, lastKill>>

\* the job-control parent puts the shell's group in the foreground and
\* continues it
EnvForeground ==
    /\ Alive /\ tfg # shellPgrp
    /\ tfg' = shellPgrp
    /\ stopped' = FALSE
    /\ children' = [p \in ChildPids |->
                       IF children[p].pgrp = shellPgrp
                       THEN [children[p] EXCEPT !.stopped = FALSE]
                       ELSE children[p]]
    /\ UNCHANGED <<envVars, parseVars,
                   pc, sh, disp, shellPgrp, exitCode, cwd, line, cmd,
                   k, pid, lastErr, out, promptFrees, lastKill>>

\* the job-control parent takes the terminal back from a stopped shell
EnvBackground ==
    /\ Alive /\ stopped
    /\ shellPgrp = ShellPid /\ tfg = shellPgrp
    /\ tfg' = ParentPgid
    /\ UNCHANGED <<envVars, parseVars,
                   pc, sh, disp, shellPgrp, stopped, exitCode, cwd,
                   line, cmd, k, pid, lastErr, out, promptFrees, lastKill,
                   children>>

\* SIGCONT from elsewhere continues a stopped process
EnvCont(target) ==
    /\ IF target = ShellPid
       THEN /\ Alive /\ stopped
            /\ stopped' = FALSE
            /\ UNCHANGED children
       ELSE /\ children[target].stopped
            /\ children' = [children EXCEPT ![target].stopped = FALSE]
            /\ UNCHANGED stopped
    /\ UNCHANGED <<envVars, parseVars,
                   pc, sh, disp, shellPgrp, tfg, exitCode, cwd, line,
                   cmd, k, pid, lastErr, out, promptFrees, lastKill>>

TerminalKeys == {"SIGINT", "SIGQUIT", "SIGTSTP"}

Next ==
    \/ ShInitStart
    \/ ShInitLoopTest
    \/ ShInitKill
    \/ ShInitIgnore
    \/ ShInitGetpid
    \/ ShInitSetpgid
    \/ ShInitTcsetpgrp
    \/ ShInitTcgetattr
    \/ ShInitPrompt
    \/ ReadLine
    \/ ReadEOF
    \/ ParseLine
    \/ DoBuiltin
    \/ ExecuteCommand
    \/ WaitChild
    \/ CmdFree
    \/ \E p \in ChildPids : ChildResetSignal(p)
    \/ \E p \in ChildPids : ChildExec(p)
    \/ \E p \in ChildPids : ChildExecFail(p)
    \/ \E p \in ChildPids : ProgramExit(p)
    \/ \E p \in ChildPids : ProgramCatch(p)
    \/ \E sig \in TerminalKeys : TerminalSignal(sig)
    \/ EnvForeground
    \/ EnvBackground
    \/ \E t \in {ShellPid} \cup ChildPids : EnvCont(t)

Spec == Init /\ [][Next]_vars

\* the shell process is scheduled: a wait that can return returns, and
\* the loop goes on to its next prompt
FairSpec == Spec /\ WF_vars(WaitChild) /\ WF_vars(CmdFree)

(* ------------------- the library called without the loop -------------- *)
\* a caller other than the read loop (a unit test) hands do_builtin an
\* empty command, or execute_command an empty or null one
CallDirect ==
    /\ pc = "prompt" /\ Running
    /\ \/ cmd' = <<>> /\ pc' \in {"dispatch", "exec"}
       \/ cmd' = NullCmd /\ pc' = "exec"
    /\ lastErr' = "none" /\ out' = "none"
    /\ UNCHANGED <<envVars, parseVars,
                   sh, disp, shellPgrp, tfg, stopped, exitCode, cwd,
                   line, k, pid, promptFrees, lastKill, children>>

ApiNext == Next \/ CallDirect

ApiSpec == Init /\ [][ApiNext]_vars

(* ----------------------- cmd_parse with allocation -------------------- *)
\* an array slot malloc returned and cmd_parse did not write
UNINIT == <<"UNINIT">>

\* longest line given to cmd_parse: enough for ARG_MAX tokens
MaxLen == 2 * ARG_MAX - 1

Alphabet == {" ", "\t", "a"}

ParseLines == UNION {[1..n -> Alphabet] : n \in 0..MaxLen}

\* the allocations of cmd_parse that can fail on a line: the array
\* (lab.c:62), the copy of the line (lab.c:65), the copy of the n-th token
\* (lab.c:70)
Faults(l) ==
    {NoFault, [site |-> "array", n |-> 0], [site |-> "copy", n |-> 0]}
        \cup {[site |-> "token", n |-> i] : i \in 1..Len(cmd_parse(l))}

\* the array after the loop and the terminator of lab.c:73, when the
\* strdup of token number failed (0: none) returned NULL
FillArray(toks, failed) ==
    [i \in 1..ARG_MAX |->
        IF i <= Len(toks) THEN (IF i = failed THEN NULL ELSE toks[i])
        ELSE IF i = Len(toks) + 1 THEN NULL
        ELSE UNINIT]

\* the outcomes of cmd_parse under the fault a.  With a null line_copy
\* strtok(NULL, " ") has no string to continue: the call crashes, or
\* finds no token in whatever it reads
cmd_parse_alloc(l, a) ==
    IF a.site = "array" THEN {[ret |-> "null", arr |-> <<>>]}
    ELSE IF a.site = "copy"
         THEN {[ret |-> "crash", arr |-> <<>>],
               [ret |-> "array", arr |-> FillArray(<<>>, 0)]}
    ELSE {[ret |-> "array", arr |-> FillArray(ParseLoop(l, <<>>), a.n)]}

\* the command a consumer reads from the array: the slots before the
\* first null (do_builtin, execvp, cmd_free)
RECURSIVE Visible(_)
Visible(arr) ==
    IF arr = <<>> \/ Head(arr) = NULL THEN <<>>
    ELSE <<Head(arr)>> \o Visible(Tail(arr))

\* the token copies cmd_free does not reach, lab.c:86-88
Leaked(arr) ==
    LET n == Len(Visible(arr))
    IN  SelectSeq(SubSeq(arr, n + 2, Len(arr)),
                  LAMBDA e : e # NULL /\ e # UNINIT)

ParseInit ==
    /\ tty = FALSE
    /\ env = [HOME |-> NULL, MY_PROMPT |-> "NULL"]
    /\ pw = NULL
    /\ pc = "parse_call"
    /\ sh = [shell_terminal |-> -1, shell_is_interactive |-> FALSE,
             shell_pgid |-> 0, shell_tmodes |-> "unset", prompt |-> "NULL"]
    /\ disp = AllDefault
    /\ shellPgrp = ShellPid /\ tfg = ShellPid
    /\ stopped = FALSE
    /\ exitCode = -1
    /\ cwd = Root
    /\ line \in ParseLines
    /\ cmd = <<>>
    /\ k = 0
    /\ pid = 0
    /\ lastErr = "none"
    /\ out = "none"
    /\ promptFrees = 0
    /\ lastKill = NoKill
    /\ children = [p \in ChildPids |-> NoChild]
    /\ alloc \in Faults(line)
    /\ cmdArr = <<>>

\* cmd_parse(line), lab.c:61-77
CmdParse ==
    /\ pc = "parse_call"
    /\ \E o \in cmd_parse_alloc(line, alloc) :
         /\ cmdArr' = o.arr
         /\ cmd' = IF o.ret = "array" THEN Visible(o.arr)
                   ELSE IF o.ret = "null" THEN NullCmd ELSE <<>>
         /\ pc' = IF o.ret = "array" THEN "parse_done"
                  ELSE IF o.ret = "null" THEN "parse_null" ELSE "crashed"
    /\ UNCHANGED <<envVars, sh, disp, shellPgrp, tfg, stopped, exitCode, cwd,
                   line, k, pid, lastErr, out, promptFrees, lastKill,
                   children, alloc>>

\* cmd_free(cmd), lab.c:84-90: afterwards cmdArr holds the blocks that
\* are still allocated
CmdFreeParsed ==
    /\ pc \in {"parse_done", "parse_null"}
    /\ cmdArr' = IF pc = "parse_null" THEN <<>> ELSE Leaked(cmdArr)
    /\ cmd' = <<>>
    /\ pc' = "parse_freed"
    /\ UNCHANGED <<envVars, sh, disp, shellPgrp, tfg, stopped, exitCode, cwd,
                   line, k, pid, lastErr, out, promptFrees, lastKill,
                   children, alloc>>

ParseNext == CmdParse \/ CmdFreeParsed

ParseSpec == ParseInit /\ [][ParseNext]_vars

(* ============================ properties ============================== *)
LiveChildren == {p \in ChildPids : children[p].pc # "none"}
RunningChildren == {p \in ChildPids : children[p].pc \notin {"none", "zombie"}}

\* positions of the read loop, after sh_init has completed
InLoop == pc \in {"prompt", "line", "dispatch", "exec", "wait", "free"}

(* ------------------------------- C1 ----------------------------------- *)
C1_AtMostOneChild == Cardinality(LiveChildren) <= 1

C1_ReturnAfterTermination ==
    (pc = "wait" /\ pc' = "free")
        => /\ children[pid].pc = "zombie"
           /\ \A p \in ChildPids : children'[p].pc = "none"

\* C1: the shell has at most one child in every state, and execute_command
\* returns from a successful fork only when that child has terminated,
\* leaving no child behind, running or zombie.
C1_BlockingLaunch ==
    [] C1_AtMostOneChild /\ [][C1_ReturnAfterTermination]_vars

C1_Witness ==
    /\ pc = "free" /\ pid \in ChildPids /\ cmd = <<LS>>
    /\ LiveChildren = {}

(* ------------------------------- C2 ----------------------------------- *)
C2_ChildNeverInShell ==
    \A p \in ChildPids :
        children[p].pc \in {"none", "sig", "exec", "execfail", "program", "zombie"}

C2_FailureEndsChild ==
    \A p \in ChildPids :
        (children[p].pc = "execfail" /\ children'[p].pc # "execfail")
            => /\ children'[p].pc = "zombie"
               /\ ~children'[p].signaled
                    => children'[p].reported /\ children'[p].status # 0

C2_ParentGoesOn ==
    (pc = "wait" /\ children[pid].reported /\ pc' \notin {"wait", "killed"})
        => pc' = "free" /\ exitCode' = -1

\* C2: a child whose execvp failed reports it and ends with a non-zero
\* status, no child is ever at a position of the shell's loop, and the
\* parent leaves its wait into the loop.
C2_ExecFailure ==
    /\ [] C2_ChildNeverInShell
    /\ [][C2_FailureEndsChild /\ C2_ParentGoesOn]_vars

C2_Witness ==
    /\ pc = "free" /\ cmd = <<NoSuchProgram>> /\ pid \in ChildPids
    /\ LiveChildren = {} /\ exitCode = -1

(* ------------------------------- C3 ----------------------------------- *)
\* C3: whenever a child is at its execvp (or has just failed it), each of
\* its five dispositions is the default: all resets precede the exec.
C3_DefaultAtExec ==
    \A p \in ChildPids :
        children[p].pc \in {"exec", "execfail"}
            => /\ \A s \in Signals : children[p].disp[s] = "dfl"
               /\ children[p].k = Len(SigOrder) + 1

C3_Witness ==
    \E p \in ChildPids :
        /\ children[p].pc = "exec"
        /\ \A s \in Signals : disp[s] = "ign" /\ children[p].disp[s] = "dfl"

(* ------------------------------- C4 ----------------------------------- *)
\* C4: in an interactive session the shell's own five dispositions are
\* "ignore" at every position of the loop, whatever children do.
C4_ShellIgnores ==
    (tty /\ InLoop) => \A s \in Signals : disp[s] = "ign"

C4_Witness ==
    /\ tty /\ pc = "wait"
    /\ \A s \in Signals : disp[s] = "ign"
    /\ \E p \in ChildPids :
         children[p].pc = "program" /\ children[p].disp["SIGTSTP"] = "dfl"

(* ------------------------------- C5 ----------------------------------- *)
\* the interrupt key hits a running child of the foreground group
InterruptHits(p) ==
    /\ TerminalSignal("SIGINT")
    /\ p \in RunningChildren
    /\ children[p].pgrp = tfg

\* C5 as stated: every terminal interrupt while a child is running
\* terminates the child and neither terminates nor suspends the shell.
C5_Original ==
    [][\A p \in ChildPids :
          InterruptHits(p)
              => /\ children'[p].pc = "zombie" /\ children'[p].signaled
                 /\ pc' = pc /\ stopped' = stopped]_vars

C5_ChildInForeground ==
    (tty /\ InLoop) =>
        /\ ~stopped
        /\ \A p \in RunningChildren : children[p].pgrp = tfg

C5_InterruptKillsChildOnly ==
    \A p \in ChildPids :
        (tty /\ InLoop /\ p \in RunningChildren
             /\ children[p].disp["SIGINT"] = "dfl" /\ TerminalSignal("SIGINT"))
            => /\ children'[p].pc = "zombie" /\ children'[p].signaled
               /\ pc' = pc /\ stopped' = stopped

C5_WaitCompletes ==
    (tty /\ pc = "wait" /\ children[pid].pc = "zombie") => ENABLED WaitChild

\* C5 amended: in an interactive session, a terminal interrupt while the
\* child has the default disposition for interrupt terminates the child and
\* leaves the shell running; the child is in the terminal's foreground
\* group, and once it is dead the shell's wait can complete.
C5_Interrupt ==
    /\ [] C5_ChildInForeground
    /\ [] C5_WaitCompletes
    /\ [][C5_InterruptKillsChildOnly]_vars

C5_Witness ==
    /\ tty /\ pc = "wait"
    /\ children[pid].pc = "zombie" /\ children[pid].signaled
    /\ children[pid].k = Len(SigOrder) + 1
    /\ children[pid].disp["SIGINT"] = "dfl"

(* ------------------------------- C6 ----------------------------------- *)
PreLoopExit == {"start", "init_loop", "init_kill"}

C6_ExitOnlyInForeground ==
    (pc = "init_loop" /\ pc' \notin {"init_loop", "killed"})
        => IF tfg = shellPgrp THEN pc' = "init_sig" ELSE pc' = "init_kill"

C6_SignalEachIteration ==
    (pc = "init_kill" /\ pc' \notin {"init_kill", "killed"})
        => /\ pc' = "init_loop"
           /\ lastKill' = [pgrp |-> shellPgrp, sig |-> "SIGTTIN"]

C6_NothingBeforeExit ==
    pc' \in PreLoopExit
        => /\ disp' = disp /\ shellPgrp' = shellPgrp
           /\ sh'.shell_tmodes = "unset" /\ sh'.prompt = "NULL"
           /\ tfg' # tfg => pc' = pc

\* C6: the acquisition loop is left only when the terminal's foreground
\* group is the shell's group, each iteration in which they differ sends
\* SIGTTIN to the shell's group, and no later step of sh_init happens
\* while the loop is running.
C6_ForegroundAcquisition ==
    [][C6_ExitOnlyInForeground /\ C6_SignalEachIteration
         /\ C6_NothingBeforeExit]_vars

C6_Witness ==
    /\ pc = "init_loop" /\ lastKill.sig = "SIGTTIN"
    /\ tfg = shellPgrp /\ ~stopped

(* ------------------------------- C7 ----------------------------------- *)
C7_ExitTearsDown ==
    (pc = "dispatch" /\ cmd[1] = EXIT /\ pc' \notin {"dispatch", "killed"})
        => /\ pc' = "exited" /\ exitCode' = 0
           /\ promptFrees = 0 /\ promptFrees' = 1

C7_NothingAfterExit ==
    pc = "exited"
        => /\ UNCHANGED <<pc, line, cmd, pid, cwd, promptFrees, exitCode>>
           /\ \A p \in ChildPids : children[p].pc = "none" => children'[p].pc = "none"

\* C7: dispatching exit, with or without arguments, frees the prompt once
\* and ends the process with status 0; afterwards nothing is read,
\* dispatched or launched.
C7_Exit == [][C7_ExitTearsDown /\ C7_NothingAfterExit]_vars

C7_Witness ==
    /\ pc = "exited" /\ cmd = <<EXIT, <<"1">>>>
    /\ promptFrees = 1 /\ exitCode = 0

(* ------------------------------- C8 ----------------------------------- *)
Builtins == {EXIT, CD, HISTORY}

\* C8: do_builtin reports "not handled" exactly when the first argument is
\* none of exit, cd, history.
C8_Original ==
    [][(pc = "dispatch" /\ pc' \in {"exec", "free", "exited"})
          => (pc' = "exec" <=> (cmd = <<>> \/ cmd[1] \notin Builtins))]_vars

(* ------------------------------- C9 ----------------------------------- *)
\* the directory a cd command asks for, NULL when there is none
CdTarget ==
    IF Len(cmd) >= 2 THEN cmd[2]
    ELSE IF env.HOME # NULL THEN env.HOME ELSE pw

FailingCd ==
    /\ pc = "dispatch" /\ cmd[1] = CD
    /\ CdTarget # NULL /\ CdTarget \notin Dirs \cup {DotDot}

\* C9: dispatching cd with a target that cannot be entered reports the
\* error, changes neither the working directory nor any other session
\* state, and leaves the shell running in its loop.
C9_FailedCd ==
    [][(FailingCd /\ pc' \notin {"dispatch", "killed"})
          => /\ lastErr' = "cd"
             /\ UNCHANGED <<cwd, sh, disp, shellPgrp, tfg, promptFrees,
                            exitCode, children, stopped, cmd>>
             /\ pc' \in {"exec", "free"}]_vars

C9_Witness ==
    /\ pc \in {"exec", "free"} /\ cmd = <<CD, NoSuchDir>>
    /\ lastErr = "cd" /\ cwd = TmpDir /\ exitCode = -1

(* ------------------------------- C10 ---------------------------------- *)
\* C10: after a successful cd the working directory is the directory its
\* first argument names, else HOME when set, else the passwd directory.
C10_CdTarget ==
    [][(pc = "dispatch" /\ cmd[1] = CD /\ pc' = "free")
          => IF Len(cmd) >= 2
             THEN cwd' = (IF cmd[2] = DotDot THEN Root ELSE cmd[2])
             ELSE IF env.HOME # NULL THEN cwd' = env.HOME
             ELSE pw # NULL => cwd' = pw]_vars

C10_Witness ==
    /\ pc = "free" /\ cmd = <<CD>> /\ lastErr = "none"
    /\ env.HOME = HomeDir /\ pw = PwDir /\ cwd = HomeDir

(* ------------------------------- C11 ---------------------------------- *)
\* the step of execute_command in which fork fails
ForkFails == pc = "exec" /\ ~NoCommand(cmd) /\ pid' = -1

\* C11: when fork fails execute_command prints the failure and nothing
\* else happens: no child appears, the session state stays as it was and
\* the shell goes on in its loop without waiting.
C11_ForkFailure ==
    [][ForkFails
          => /\ lastErr' = "fork"
             /\ pc' = "free" /\ exitCode' = -1
             /\ UNCHANGED <<children, sh, disp, shellPgrp, tfg, cwd, cmd,
                            stopped, promptFrees>>]_vars

C11_Witness ==
    /\ pc = "free" /\ pid = -1 /\ lastErr = "fork" /\ cmd = <<LS, <<"-">>>>
    /\ LiveChildren = {} /\ exitCode = -1

(* ------------------------------- C12 ---------------------------------- *)
\* what a command that does nothing must leave alone
NoSideEffect ==
    UNCHANGED <<children, cwd, sh, disp, shellPgrp, tfg, promptFrees,
                exitCode, lastErr, out, stopped>>

C12_EmptyDispatch ==
    (pc = "dispatch" /\ cmd = <<>> /\ pc' \notin {"dispatch", "killed"})
        => pc' = "exec" /\ NoSideEffect

C12_EmptyLaunch ==
    (pc = "exec" /\ cmd \in {<<>>, NullCmd} /\ pc' \notin {"exec", "killed"})
        => pc' = "free" /\ pid' = pid /\ NoSideEffect

C12_BlankLine ==
    (pc = "line" /\ trim_white(line) = <<>> /\ pc' \notin {"line", "killed"})
        => pc' = "prompt" /\ NoSideEffect

\* C12: for the empty command do_builtin reports "not handled" and has no
\* effect, execute_command returns for the empty and for the null command
\* without a child, and a blank line causes no fork, exec or cd.
C12_EmptyCommand ==
    [][C12_EmptyDispatch /\ C12_EmptyLaunch /\ C12_BlankLine]_vars

C12_Witness ==
    /\ pc = "free" /\ cmd = <<>> /\ pid = 0 /\ lastErr = "none"
    /\ LiveChildren = {} /\ cwd = TmpDir

(* ------------------------------- C13 ---------------------------------- *)
\* the maximal runs of characters that are not whitespace, in order
RECURSIVE NonSpaceLen(_)
NonSpaceLen(s) ==
    IF s = <<>> \/ IsSpace(Head(s)) THEN 0 ELSE 1 + NonSpaceLen(Tail(s))

RECURSIVE WhitespaceRuns(_)
WhitespaceRuns(s) ==
    LET r == SkipLeadingSpace(s)
        n == NonSpaceLen(r)
    IN  IF r = <<>> THEN <<>>
        ELSE <<SubSeq(r, 1, n)>> \o WhitespaceRuns(SubSeq(r, n + 1, Len(r)))

\* C13: when its allocations succeed cmd_parse returns exactly the maximal
\* runs of non-whitespace characters of the line: no empty token, no
\* whitespace inside a token, nothing for a line of whitespace.
C13_Original ==
    (pc = "parse_done" /\ alloc = NoFault)
        => /\ cmd = WhitespaceRuns(line)
           /\ \A i \in 1..Len(cmd) :
                cmd[i] # <<>> /\ \A j \in 1..Len(cmd[i]) : ~IsSpace(cmd[i][j])
           /\ (\A j \in 1..Len(line) : IsSpace(line[j])) => cmd = <<>>

(* ------------------------------- C14 ---------------------------------- *)
\* the tokens joined with a single space
RECURSIVE Join(_)
Join(toks) ==
    IF toks = <<>> THEN <<>>
    ELSE IF Len(toks) = 1 THEN toks[1]
    ELSE toks[1] \o SP \o Join(Tail(toks))

\* C14: parsing the tokens of a parsed line, joined with single spaces,
\* gives the same tokens again.
C14_Idempotent ==
    pc = "parse_done" => cmd_parse(Join(cmd)) = cmd

C14_Witness ==
    /\ pc = "parse_done" /\ alloc = NoFault
    /\ Len(cmd) = 2 /\ line # Join(cmd)
    /\ \E i \in 1..Len(cmd) : \E j \in 1..Len(cmd[i]) : cmd[i][j] = "\t"

(* ------------------------------- C15 ---------------------------------- *)
\* the runs of characters other than the delimiter, in order
RECURSIVE NonBlankLen(_)
NonBlankLen(s) ==
    IF s = <<>> \/ Head(s) = " " THEN 0 ELSE 1 + NonBlankLen(Tail(s))

RECURSIVE BlankRuns(_)
BlankRuns(s) ==
    IF s = <<>> THEN <<>>
    ELSE IF Head(s) = " " THEN BlankRuns(Tail(s))
    ELSE <<SubSeq(s, 1, NonBlankLen(s))>>
             \o BlankRuns(SubSeq(s, NonBlankLen(s) + 1, Len(s)))

FirstN(q, n) == SubSeq(q, 1, IF Len(q) < n THEN Len(q) ELSE n)

\* the array layout of C15 for n tokens: tokens in the first n slots, the
\* terminator in the next, no token behind it
WellTerminated(arr, n) ==
    /\ n <= ARG_MAX - 1
    /\ Len(arr) = ARG_MAX
    /\ \A i \in 1..n : arr[i] # NULL /\ arr[i] # UNINIT
    /\ arr[n + 1] = NULL
    /\ \A i \in (n + 2)..Len(arr) : arr[i] \in {NULL, UNINIT}

\* C15: every non-null result of cmd_parse holds its tokens in slots
\* 0..n-1 with the terminator in slot n inside the array, and they are the
\* first ARG_MAX-1 tokens of the line, all of them when the line has fewer.
C15_Original ==
    pc = "parse_done"
        => /\ WellTerminated(cmdArr, Len(cmd))
           /\ cmd = FirstN(BlankRuns(line), ARG_MAX - 1)

\* the same for the results of calls in which every allocation succeeded
C15_WithoutFault ==
    (pc = "parse_done" /\ alloc = NoFault)
        => /\ WellTerminated(cmdArr, Len(cmd))
           /\ cmd = FirstN(BlankRuns(line), ARG_MAX - 1)

(* ------------------------------- C16 ---------------------------------- *)
\* C16: when an allocation of cmd_parse fails the call does not crash and
\* returns a null or an empty result, never a proper prefix of the tokens.
C16_Original ==
    (alloc # NoFault /\ pc # "parse_call")
        => /\ pc # "crashed"
           /\ pc = "parse_done" => cmd = <<>>

(* ------------------------------- C17 ---------------------------------- *)
ChildTerminated == pc = "wait" /\ children[pid].pc = "zombie"

C17_OnlyTermination ==
    (pc = "wait" /\ pc' = "free") => children[pid].pc = "zombie"

C17_StoppedChildBlocks ==
    (pc = "wait" /\ children[pid].pc # "zombie" /\ children[pid].stopped)
        => ~ENABLED WaitChild

\* C17: once the launched child has exited or been killed, the shell,
\* unless it is itself killed or stopped, returns from execute_command and
\* prompts again (always so in an interactive session); the wait returns
\* for a terminated child only, a stopped child keeps the shell blocked.
C17_WaitForTermination ==
    /\ ChildTerminated ~> (pc = "prompt" \/ ~Running)
    /\ (tty /\ ChildTerminated) ~> pc = "prompt"
    /\ [] C17_StoppedChildBlocks
    /\ [][C17_OnlyTermination]_vars

C17_Witness ==
    /\ tty /\ pc = "wait"
    /\ children[pid].pc = "program" /\ children[pid].stopped
    /\ children[pid].disp["SIGTSTP"] = "dfl"

(* ------------------------------- C18 ---------------------------------- *)
AllIgnored == \A s \in Signals : disp[s] = "ign"

C18_OwnForegroundGroup ==
    (tty /\ InLoop)
        => /\ sh.shell_pgid = ShellPid
           /\ shellPgrp = ShellPid
           /\ tfg = sh.shell_pgid
           /\ \A p \in LiveChildren : children[p].pgrp = shellPgrp

C18_IgnoreFirst ==
    /\ shellPgrp' # shellPgrp => AllIgnored
    /\ (tfg' # tfg /\ pc' # pc) => AllIgnored

\* C18: in an interactive session, at every position of the loop, the
\* recorded shell_pgid is the shell's pid, the shell leads its own group
\* and that group is the terminal's foreground group, children included;
\* the shell changes its group and the terminal's only with all five
\* signals ignored.
C18_SessionGroups ==
    [] C18_OwnForegroundGroup /\ [][C18_IgnoreFirst]_vars

C18_Witness ==
    /\ tty /\ pc = "free" /\ pid \in ChildPids /\ LiveChildren = {}
    /\ sh.shell_pgid = ShellPid /\ shellPgrp = ShellPid /\ tfg = ShellPid
    /\ sh.shell_tmodes = "saved"

(* ------------------------------- C19 ---------------------------------- *)
InitSteps == {"start", "init_loop", "init_kill", "init_sig", "init_getpid",
              "init_setpgid", "init_tcsetpgrp", "init_tcgetattr",
              "init_prompt"}

C19_NoTerminalSetup ==
    (~tty /\ pc \in InitSteps)
        => /\ UNCHANGED <<disp, shellPgrp, lastKill>>
           /\ sh'.shell_pgid = sh.shell_pgid
           /\ sh'.shell_tmodes = sh.shell_tmodes
           /\ tfg' # tfg => pc' = pc
           /\ pc' \in {"start", "init_prompt", "prompt", "killed"}

C19_Loaded ==
    InLoop
        => /\ sh.shell_terminal = STDIN_FILENO
           /\ sh.shell_is_interactive = tty
           /\ sh.prompt = IF env.MY_PROMPT = "NULL" THEN "shell> "
                          ELSE env.MY_PROMPT
           /\ ~tty => /\ sh.shell_pgid = 0 /\ sh.shell_tmodes = "unset"
                      /\ lastKill = NoKill

\* C19: without a terminal sh_init changes no disposition, sends no
\* signal and touches neither process group; it records the descriptor and
\* the flag and loads the prompt, MY_PROMPT when set and "shell> "
\* otherwise, as it does with a terminal.
C19_NonInteractiveInit ==
    [] C19_Loaded /\ [][C19_NoTerminalSetup]_vars

C19_Witness ==
    /\ ~tty /\ pc = "prompt" /\ sh.prompt = "shell> "
    /\ shellPgrp = ParentPgid /\ tfg = ParentPgid
    /\ \A s \in Signals : disp[s] = "dfl"

(* ------------------------------- C20 ---------------------------------- *)
NoHome == env.HOME = NULL /\ pw = NULL

\* C20: cd without an argument, without HOME and without a passwd entry
\* changes no directory, prints nothing and is reported as handled.
C20_CdNowhere ==
    [][(pc = "dispatch" /\ cmd = <<CD>> /\ NoHome
           /\ pc' \notin {"dispatch", "killed"})
          => /\ pc' = "free"
             /\ cwd' = cwd /\ lastErr' = "none" /\ out' = "none"
             /\ exitCode' = -1]_vars

C20_Witness ==
    /\ pc = "free" /\ cmd = <<CD>> /\ NoHome
    /\ cwd = TmpDir /\ lastErr = "none"

====
